---------------------------- MODULE Spec2Model ----------------------------
(***************************************************************************)
(* Model of the VEX statement-matching engine of go-vex                    *)
(* (pkg/vex/product_functions.go): PurlMatches, Component.Matches,         *)
(* Product.Matches, Vulnerability.Matches, Statement.Matches and           *)
(* VEX.Matches.                                                            *)
(*                                                                         *)
(* Go strings are modelled as sequences of one-character strings, so that  *)
(* prefix tests and the parsing of package URLs are computed, not assumed. *)
(* A nil map is the empty function, a nil slice NilSlice, a nil            *)
(* *time.Time NoTime.                                                      *)
(***************************************************************************)
EXTENDS Integers, Sequences, FiniteSets, TLC

VARIABLES vexDoc, call, mapSeed, sortKey

vars == <<vexDoc, call, mapSeed, sortKey>>

(***************************************************************************)
(* strings                                                                 *)
(***************************************************************************)

\* The empty Go string "".
EmptyString == <<>>

\* s[from..to] with Go's half-open convention translated to 1-based inclusive.
Sub(s, from, to) == SubSeq(s, from, to)

\* strings.Index(s, ch) + 1: the first position of ch in s, 0 when absent.
Index(s, ch) ==
    IF \E i \in 1..Len(s) : s[i] = ch
    THEN CHOOSE i \in 1..Len(s) : s[i] = ch /\ \A j \in 1..(i - 1) : s[j] # ch
    ELSE 0

\* strings.LastIndex(s, ch) + 1: the last position of ch in s, 0 when absent.
LastIndex(s, ch) ==
    IF \E i \in 1..Len(s) : s[i] = ch
    THEN CHOOSE i \in 1..Len(s) : s[i] = ch /\ \A j \in (i + 1)..Len(s) : s[j] # ch
    ELSE 0

\* strings.HasPrefix(s, prefix)
HasPrefix(s, prefix) ==
    /\ Len(s) >= Len(prefix)
    /\ SubSeq(s, 1, Len(prefix)) = prefix

\* strings.Split(s, ch): the pieces of s between the occurrences of ch.
RECURSIVE Split(_, _)
Split(s, ch) ==
    LET i == Index(s, ch)
    IN  IF i = 0 THEN <<s>>
        ELSE <<Sub(s, 1, i - 1)>> \o Split(Sub(s, i + 1, Len(s)), ch)

\* unicode.ToLower on the alphabet of the model, whose only upper-case
\* letter is "A".
LowerChar(ch) == IF ch = "A" THEN "a" ELSE ch

\* strings.ToLower(s)
ToLower(s) == [i \in 1..Len(s) |-> LowerChar(s[i])]

\* The literal "pkg:" of Component.Matches.
PkgPrefix == <<"p", "k", "g", ":">>


(***************************************************************************)
(* package URLs: packageurl.FromString and Qualifiers.Map                  *)
(***************************************************************************)

\* The error result of packageurl.FromString.
ParseError == [err |-> TRUE]

\* One "key=value" item of the query: the key lower-cased, split at the
\* first "=".
QualifierOf(item) ==
    LET eq == Index(item, "=")
    IN  [Key   |-> ToLower(Sub(item, 1, eq - 1)),
         Value |-> Sub(item, eq + 1, Len(item))]

\* An item the parser refuses: no "=", or an empty key.
BadQualifier(item) == Index(item, "=") <= 1

\* The qualifiers of a query string, in order; items with an empty value
\* are dropped.
RECURSIVE QualifiersOf(_)
QualifiersOf(items) ==
    IF items = <<>> THEN <<>>
    ELSE LET q == QualifierOf(Head(items))
         IN  IF q.Value = EmptyString THEN QualifiersOf(Tail(items))
             ELSE <<q>> \o QualifiersOf(Tail(items))

\* The last step of FromString: the name and the version are split at the
\* last "@"; a refused qualifier or an empty name is an error.
ParseName(typ, namespace, nameVer, items) ==
    LET at == LastIndex(nameVer, "@")
    IN  IF \E i \in 1..Len(items) : BadQualifier(items[i]) THEN ParseError
        ELSE IF (IF at = 0 THEN nameVer ELSE Sub(nameVer, 1, at - 1)) = EmptyString
             THEN ParseError
        ELSE [err        |-> FALSE,
              Type       |-> typ,
              Namespace  |-> namespace,
              Name       |-> IF at = 0 THEN nameVer ELSE Sub(nameVer, 1, at - 1),
              Version    |-> IF at = 0 THEN EmptyString
                             ELSE Sub(nameVer, at + 1, Len(nameVer)),
              Qualifiers |-> QualifiersOf(items)]

\* The namespace is what precedes the last "/" of the path after the type.
ParseRemainder(typ, remainder, items) ==
    LET nsSep == LastIndex(remainder, "/")
    IN  ParseName(typ, Sub(remainder, 1, nsSep - 1),
                  Sub(remainder, nsSep + 1, Len(remainder)), items)

\* The type is what precedes the first "/", in lower case; the query is
\* split at "&".
ParsePath(path, query) ==
    LET slash == Index(path, "/")
    IN  IF slash <= 1 THEN ParseError
        ELSE ParseRemainder(ToLower(Sub(path, 1, slash - 1)),
                            Sub(path, slash + 1, Len(path)),
                            IF query = EmptyString THEN <<>>
                            ELSE Split(query, "&"))

\* What follows the scheme is split at "?" into the path and the query.
ParseOpaque(rest) ==
    LET q == LastIndex(rest, "?")
    IN  ParsePath(IF q = 0 THEN rest ELSE Sub(rest, 1, q - 1),
                  IF q = 0 THEN EmptyString ELSE Sub(rest, q + 1, Len(rest)))

\* packageurl.FromString: scheme:type/namespace/name@version?qualifiers
FromString(purl) ==
    LET colon == Index(purl, ":")
    IN  IF colon = 0 \/ Sub(purl, 1, colon - 1) # <<"p", "k", "g">>
        THEN ParseError
        ELSE ParseOpaque(Sub(purl, colon + 1, Len(purl)))

\* Qualifiers.Map(): the key/value mapping of a qualifier list; a later
\* entry of a repeated key overwrites an earlier one.
QualifiersMap(quals) ==
    LET keys == {quals[i].Key : i \in 1..Len(quals)}
        last(k) == CHOOSE i \in 1..Len(quals) :
                       /\ quals[i].Key = k
                       /\ \A j \in (i + 1)..Len(quals) : quals[j].Key # k
    IN  [k \in keys |-> quals[last(k)].Value]

(***************************************************************************)
(* PurlMatches                                                             *)
(***************************************************************************)

\* The qualifier test of PurlMatches: every qualifier of p1q is in p2q
\* with the same value.
\* The orders in which a range statement may visit the keys of a map: some
\* order of the keys, or its reverse.  On a map of at most two keys these
\* are all the orders there are.
MapSeeds == {"forward", "backward"}

RECURSIVE KeysOf(_)
KeysOf(S) ==
    IF S = {} THEN <<>>
    ELSE LET k == CHOOSE x \in S : TRUE
         IN  <<k>> \o KeysOf(S \ {k})

Reverse(s) == [i \in 1..Len(s) |-> s[Len(s) + 1 - i]]

\* The keys of map m in the order the current range statement visits them.
RangeOrder(m) ==
    IF mapSeed = "forward" THEN KeysOf(DOMAIN m)
    ELSE Reverse(KeysOf(DOMAIN m))

\* for k, v1 := range p1q, from the i-th key visited.
RECURSIVE QualifiersLoop(_, _, _, _)
QualifiersLoop(p1q, p2q, keys, i) ==
    IF i > Len(keys) THEN TRUE
    ELSE IF keys[i] \notin DOMAIN p2q THEN FALSE
    ELSE IF p1q[keys[i]] # p2q[keys[i]] THEN FALSE
    ELSE QualifiersLoop(p1q, p2q, keys, i + 1)

QualifiersMatch(p1q, p2q) == QualifiersLoop(p1q, p2q, RangeOrder(p1q), 1)

\* PurlMatches after both parses, the versions compared for plain equality.
ParsedPurlsMatch_VersionEquality(p1, p2) ==
    IF p1.err THEN FALSE
    ELSE IF p2.err THEN FALSE
    ELSE IF p1.Type # p2.Type THEN FALSE
    ELSE IF p1.Namespace # p2.Namespace THEN FALSE
    ELSE IF p1.Name # p2.Name THEN FALSE
    ELSE IF p1.Version # p2.Version THEN FALSE
    ELSE QualifiersMatch(QualifiersMap(p1.Qualifiers),
                         QualifiersMap(p2.Qualifiers))

\* PurlMatches after both parses: p1 and p2 are the results of FromString.
ParsedPurlsMatch(p1, p2) ==
    IF p1.err THEN FALSE
    ELSE IF p2.err THEN FALSE
    ELSE IF p1.Type # p2.Type THEN FALSE
    ELSE IF p1.Namespace # p2.Namespace THEN FALSE
    ELSE IF p1.Name # p2.Name THEN FALSE
    ELSE IF p1.Version # EmptyString /\ p2.Version = EmptyString THEN FALSE
    ELSE IF /\ p1.Version # p2.Version
            /\ p1.Version # EmptyString
            /\ p2.Version # EmptyString THEN FALSE
    ELSE QualifiersMatch(QualifiersMap(p1.Qualifiers),
                         QualifiersMap(p2.Qualifiers))

PurlMatches(purl1, purl2) ==
    ParsedPurlsMatch(FromString(purl1), FromString(purl2))

(***************************************************************************)
(* Component.Matches, Product.Matches                                      *)
(*                                                                         *)
(* A Component is [ID, Identifiers, Hashes]: Identifiers maps identifier   *)
(* types to strings and Hashes maps algorithms to hash values (a nil map   *)
(* is the empty function).  A Product is [Component, Subcomponents], the   *)
(* latter a sequence of [Component].                                       *)
(***************************************************************************)

\* The identifier type PURL.
PURL == "purl"

\* for t, id := range c.Identifiers, judging by the first entry visited
\* alone.
IdentifiersLoop_FirstEntryOnly(identifiers, identifier, keys, i) ==
    IF i > Len(keys) THEN FALSE
    ELSE IF identifiers[keys[i]] = identifier THEN TRUE
    ELSE /\ keys[i] = PURL
         /\ HasPrefix(identifier, PkgPrefix)
         /\ PurlMatches(identifiers[keys[i]], identifier)

\* for t, id := range c.Identifiers, from the i-th entry visited.
RECURSIVE IdentifiersLoop(_, _, _, _)
IdentifiersLoop(identifiers, identifier, keys, i) ==
    IF i > Len(keys) THEN FALSE
    ELSE IF identifiers[keys[i]] = identifier THEN TRUE
    ELSE IF /\ keys[i] = PURL
            /\ HasPrefix(identifier, PkgPrefix)
            /\ PurlMatches(identifiers[keys[i]], identifier) THEN TRUE
    ELSE IdentifiersLoop(identifiers, identifier, keys, i + 1)

\* for _, hashVal := range c.Hashes, from the i-th entry visited.
RECURSIVE HashesLoop(_, _, _, _)
HashesLoop(hashes, identifier, keys, i) ==
    IF i > Len(keys) THEN FALSE
    ELSE IF hashes[keys[i]] = identifier THEN TRUE
    ELSE HashesLoop(hashes, identifier, keys, i + 1)

\* Component.Matches without the test that the ID is not empty.
Component_Matches_NoEmptyGuard(c, identifier) ==
    IF c.ID = identifier THEN TRUE
    ELSE IF HasPrefix(c.ID, PkgPrefix) /\ PurlMatches(c.ID, identifier) THEN TRUE
    ELSE IF IdentifiersLoop(c.Identifiers, identifier,
                            RangeOrder(c.Identifiers), 1) THEN TRUE
    ELSE HashesLoop(c.Hashes, identifier, RangeOrder(c.Hashes), 1)

Component_Matches(c, identifier) ==
    IF c.ID = identifier /\ c.ID # EmptyString THEN TRUE
    ELSE IF HasPrefix(c.ID, PkgPrefix) /\ PurlMatches(c.ID, identifier) THEN TRUE
    ELSE IF IdentifiersLoop(c.Identifiers, identifier,
                            RangeOrder(c.Identifiers), 1) THEN TRUE
    ELSE HashesLoop(c.Hashes, identifier, RangeOrder(c.Hashes), 1)

\* The loop of Product.Matches over p.Subcomponents, from index i on.
RECURSIVE SubcomponentsLoop(_, _, _)
SubcomponentsLoop(subcomponents, i, subIdentifier) ==
    IF i > Len(subcomponents) THEN FALSE
    ELSE IF Component_Matches(subcomponents[i].Component, subIdentifier) THEN TRUE
    ELSE SubcomponentsLoop(subcomponents, i + 1, subIdentifier)

\* Product.Matches with the subcomponents matched against the product
\* identifier instead of the sub-identifier.
Product_Matches_WrongIdentifier(p, identifier, subIdentifier) ==
    IF ~Component_Matches(p.Component, identifier) THEN FALSE
    ELSE IF Len(p.Subcomponents) = 0 THEN TRUE
    ELSE SubcomponentsLoop(p.Subcomponents, 1, identifier)

\* Product.Matches without the early return for a product that has no
\* subcomponents.
Product_Matches_NoEarlyReturn(p, identifier, subIdentifier) ==
    IF ~Component_Matches(p.Component, identifier) THEN FALSE
    ELSE SubcomponentsLoop(p.Subcomponents, 1, subIdentifier)

Product_Matches(p, identifier, subIdentifier) ==
    IF ~Component_Matches(p.Component, identifier) THEN FALSE
    ELSE IF Len(p.Subcomponents) = 0 THEN TRUE
    ELSE SubcomponentsLoop(p.Subcomponents, 1, subIdentifier)

(***************************************************************************)
(* Vulnerability.Matches, Statement.Matches                                *)
(*                                                                         *)
(* A Vulnerability is [ID, Name, Aliases]; a Statement is                  *)
(* [Vulnerability, Products, Timestamp].                                   *)
(***************************************************************************)

\* Vulnerability.Matches with the ID compared only when it is not empty,
\* as Component.Matches compares its ID.
Vulnerability_Matches_NonEmptyID(v, identifier) ==
    IF v.ID = identifier /\ v.ID # EmptyString THEN TRUE
    ELSE IF v.Name = identifier THEN TRUE
    ELSE \E i \in 1..Len(v.Aliases) : v.Aliases[i] = identifier

Vulnerability_Matches(v, identifier) ==
    IF v.ID = identifier THEN TRUE
    ELSE IF v.Name = identifier THEN TRUE
    ELSE \E i \in 1..Len(v.Aliases) : v.Aliases[i] = identifier

\* A nil *time.Time.
NoTime == -1

\* The zero time.Time, the value of an unassigned `var t time.Time`.
ZeroTime == 0

\* A nil slice and a non-nil slice with the given elements.
NilSlice == [isNil |-> TRUE, elems |-> <<>>]
Slice(elems) == [isNil |-> FALSE, elems |-> elems]

\* len(slice)
GoLen(slice) == IF slice.isNil THEN 0 ELSE Len(slice.elems)

\* The inner loop of Statement.Matches over the sub-identifiers, from k on.
RECURSIVE CandidatesLoop(_, _, _, _)
CandidatesLoop(p, product, subcomponents, k) ==
    IF k > GoLen(subcomponents) THEN FALSE
    ELSE IF Product_Matches(p, product, subcomponents.elems[k]) THEN TRUE
    ELSE CandidatesLoop(p, product, subcomponents, k + 1)

\* The outer loop of Statement.Matches trying the empty sub-identifier
\* whether or not sub-identifiers were passed.
RECURSIVE ProductsLoop_AlwaysEmpty(_, _, _, _)
ProductsLoop_AlwaysEmpty(products, i, product, subcomponents) ==
    IF i > Len(products) THEN FALSE
    ELSE IF Product_Matches(products[i], product, EmptyString) THEN TRUE
    ELSE IF CandidatesLoop(products[i], product, subcomponents, 1) THEN TRUE
    ELSE ProductsLoop_AlwaysEmpty(products, i + 1, product, subcomponents)

\* The outer loop of Statement.Matches over s.Products, from i on.
RECURSIVE ProductsLoop(_, _, _, _)
ProductsLoop(products, i, product, subcomponents) ==
    IF i > Len(products) THEN FALSE
    ELSE IF /\ GoLen(subcomponents) = 0
            /\ Product_Matches(products[i], product, EmptyString) THEN TRUE
    ELSE IF CandidatesLoop(products[i], product, subcomponents, 1) THEN TRUE
    ELSE ProductsLoop(products, i + 1, product, subcomponents)

Statement_Matches(s, vuln, product, subcomponents) ==
    IF ~Vulnerability_Matches(s.Vulnerability, vuln) THEN FALSE
    ELSE ProductsLoop(s.Products, 1, product, subcomponents)

(***************************************************************************)
(* SortStatements, VEX.Matches                                             *)
(*                                                                         *)
(* A VEX document is [Statements, Timestamp], Statements a slice.          *)
(***************************************************************************)

\* The time a statement is ordered by: its own timestamp, or the document's
\* when it has none.
EffectiveTime(s, documentTimestamp) ==
    IF s.Timestamp # NoTime THEN s.Timestamp ELSE documentTimestamp

\* What SortStatements compares.  Its source is not among the files of the
\* package that VEX.Matches is read from, so the comparison is left open
\* between the two candidates: effective times alone, as the temporal
\* ordering policy words it, or vulnerability names first and effective
\* times among statements of one name.  sortKey says which one the build
\* has; it never changes.
TimeKey == "time"
NameTimeKey == "name, time"
SortKeys == {TimeKey, NameTimeKey}

\* The byte of a character of the vulnerability names.
ByteOf(ch) ==
    CASE ch = "1" -> 49
      [] ch = "2" -> 50
      [] ch = "C" -> 67
      [] ch = "G" -> 71
      [] ch = "I" -> 73

\* strings.Compare(a, b) < 0
RECURSIVE StringLess(_, _)
StringLess(a, b) ==
    IF b = <<>> THEN FALSE
    ELSE IF a = <<>> THEN TRUE
    ELSE IF Head(a) # Head(b) THEN ByteOf(Head(a)) < ByteOf(Head(b))
    ELSE StringLess(Tail(a), Tail(b))

\* The less function of the sort under the current key.
Before(a, b, t) ==
    IF sortKey = NameTimeKey /\ a.Vulnerability.Name # b.Vulnerability.Name
    THEN StringLess(a.Vulnerability.Name, b.Vulnerability.Name)
    ELSE EffectiveTime(a, t) < EffectiveTime(b, t)

\* s inserted into the sorted sequence, after every element it does not
\* come before.
RECURSIVE InsertStable(_, _, _)
InsertStable(sorted, s, t) ==
    IF sorted = <<>> THEN <<s>>
    ELSE IF Before(s, Head(sorted), t)
         THEN <<s>> \o sorted
         ELSE <<Head(sorted)>> \o InsertStable(Tail(sorted), s, t)

\* SortStatements(stmts, documentTimestamp): stmts in ascending order under
\* the current key, statements that compare equal in the order they came
\* in.
RECURSIVE SortStatements(_, _)
SortStatements(stmts, documentTimestamp) ==
    IF stmts = <<>> THEN <<>>
    ELSE InsertStable(SortStatements(SubSeq(stmts, 1, Len(stmts) - 1),
                                     documentTimestamp),
                      stmts[Len(stmts)], documentTimestamp)

\* The loop of VEX.Matches stopping before the first statement (i > 0).
RECURSIVE CollectLoop_SkipsFirst(_, _, _, _, _, _)
CollectLoop_SkipsFirst(statements, i, matches, vulnID, product, subcomponents) ==
    IF i < 2 THEN matches
    ELSE CollectLoop_SkipsFirst(statements, i - 1,
                     IF Statement_Matches(statements.elems[i], vulnID, product,
                                          subcomponents)
                     THEN Append(matches, statements.elems[i])
                     ELSE matches,
                     vulnID, product, subcomponents)

\* The loop of VEX.Matches: i runs from len(statements) - 1 down to 0
\* (here from GoLen(statements) down to 1), appending the matches.
RECURSIVE CollectLoop(_, _, _, _, _, _)
CollectLoop(statements, i, matches, vulnID, product, subcomponents) ==
    IF i < 1 THEN matches
    ELSE CollectLoop(statements, i - 1,
                     IF Statement_Matches(statements.elems[i], vulnID, product,
                                          subcomponents)
                     THEN Append(matches, statements.elems[i])
                     ELSE matches,
                     vulnID, product, subcomponents)

\* VEX.Matches sorting the document's own statements in place before
\* collecting from them.
VEX_Matches_SortsDocument(doc, vulnID, product, subcomponents) ==
    LET t          == IF doc.Timestamp # NoTime THEN doc.Timestamp ELSE ZeroTime
        statements == IF doc.Statements.isNil THEN doc.Statements
                      ELSE Slice(SortStatements(doc.Statements.elems, t))
        matches    == CollectLoop(statements, GoLen(statements), <<>>,
                                  vulnID, product, subcomponents)
    IN  [doc |-> [doc EXCEPT !.Statements = statements],
         ret |-> SortStatements(matches, t)]

\* VEX.Matches: the document after the call and the slice returned.
VEX_Matches(doc, vulnID, product, subcomponents) ==
    LET statements == doc.Statements
        t          == IF doc.Timestamp # NoTime THEN doc.Timestamp ELSE ZeroTime
        matches    == CollectLoop(statements, GoLen(statements), <<>>,
                                  vulnID, product, subcomponents)
    IN  [doc |-> doc, ret |-> SortStatements(matches, t)]

(***************************************************************************)
(* inputs of PurlMatches                                                   *)
(***************************************************************************)

\* "key=value&key=value" of a non-empty qualifier list.
RECURSIVE JoinQualifiers(_)
JoinQualifiers(quals) ==
    LET kv == Head(quals).Key \o <<"=">> \o Head(quals).Value
    IN  IF Len(quals) = 1 THEN kv
        ELSE kv \o <<"&">> \o JoinQualifiers(Tail(quals))

\* The canonical text of a package URL with the given parts.
PurlText(typ, namespace, name, version, quals) ==
    PkgPrefix \o typ \o <<"/">>
      \o (IF namespace = EmptyString THEN EmptyString ELSE namespace \o <<"/">>)
      \o name
      \o (IF version = EmptyString THEN EmptyString ELSE <<"@">> \o version)
      \o (IF quals = <<>> THEN EmptyString ELSE <<"?">> \o JoinQualifiers(quals))

PurlTypes      == {<<"a">>, <<"A">>, <<"b">>}
PurlNamespaces == {EmptyString, <<"n">>}
PurlNames      == {<<"c">>, <<"d">>}
PurlVersions   == {EmptyString, <<"1">>, <<"2">>}
QualKV == [Key |-> <<"k">>, Value |-> <<"v">>]
QualKW == [Key |-> <<"k">>, Value |-> <<"w">>]
QualJW == [Key |-> <<"j">>, Value |-> <<"w">>]
PurlQualifiers == {<<>>, <<QualKV>>, <<QualKW>>, <<QualKV, QualJW>>, <<QualJW, QualKV>>}

\* Well-formed package URLs.
ValidPurls ==
    {PurlText(t, ns, n, v, q) : t \in PurlTypes, ns \in PurlNamespaces,
                                n \in PurlNames, v \in PurlVersions,
                                q \in PurlQualifiers}

\* Strings that are no package URL: "", "x", "pkg:c", "pkg:a/", "pkg:a/@1",
\* "a/c@1".
InvalidPurls ==
    {EmptyString, <<"x">>, PkgPrefix \o <<"c">>, PkgPrefix \o <<"a", "/">>,
     PkgPrefix \o <<"a", "/", "@", "1">>, <<"a", "/", "c", "@", "1">>}

PurlInputs == ValidPurls \cup InvalidPurls

(***************************************************************************)
(* state                                                                   *)
(***************************************************************************)

\* A VEX document without statements or timestamp.
NoDocument == [Statements |-> NilSlice, Timestamp |-> NoTime]

(***************************************************************************)
(* PurlMatches as an operation                                             *)
(*                                                                         *)
(* `call` is the call in progress: its operation, its receiver and         *)
(* arguments, whether it has returned (done) and what it returned (ret).   *)
(***************************************************************************)

InitPurl ==
    /\ vexDoc = NoDocument
    /\ mapSeed \in MapSeeds
    /\ sortKey = TimeKey
    /\ \E purl1 \in PurlInputs, purl2 \in PurlInputs :
         call = [op |-> "PurlMatches", purl1 |-> purl1, purl2 |-> purl2,
                 done |-> FALSE, ret |-> FALSE]

CallPurlMatches ==
    /\ call.op = "PurlMatches"
    /\ ~call.done
    /\ call' = [call EXCEPT !.done = TRUE,
                            !.ret = PurlMatches(call.purl1, call.purl2)]
    /\ UNCHANGED <<vexDoc, mapSeed, sortKey>>

SpecPurl == InitPurl /\ [][CallPurlMatches]_vars

\* The parser recovers the parts a well-formed package URL was written from
\* (the type in lower case).
ParseRoundTrip ==
    \A t \in PurlTypes, ns \in PurlNamespaces, n \in PurlNames,
       v \in PurlVersions, q \in PurlQualifiers :
        FromString(PurlText(t, ns, n, v, q)) =
            [err |-> FALSE, Type |-> ToLower(t), Namespace |-> ns, Name |-> n,
             Version |-> v, Qualifiers |-> q]

\* The relation of C1 between two parse results: both are package URLs, type,
\* namespace and name are identical, the version of g is empty or that of s,
\* and each qualifier of g is a qualifier of s.
Generalises(g, s) ==
    /\ ~g.err
    /\ ~s.err
    /\ g.Type = s.Type
    /\ g.Namespace = s.Namespace
    /\ g.Name = s.Name
    /\ (g.Version = EmptyString \/ g.Version = s.Version)
    /\ \A i \in 1..Len(g.Qualifiers) :
         \E j \in 1..Len(s.Qualifiers) :
             /\ s.Qualifiers[j].Key = g.Qualifiers[i].Key
             /\ s.Qualifiers[j].Value = g.Qualifiers[i].Value

\* C1: PurlMatches(general, specific) is true exactly when both strings
\* parse, type, namespace and name are identical, the version of general is
\* empty or equal to that of specific, and every qualifier of general is on
\* specific with the same value; otherwise (also on a parse failure) false.
C1_PurlMatchesContract ==
    (call.op = "PurlMatches" /\ call.done) =>
        (call.ret <=>
            Generalises(FromString(call.purl1), FromString(call.purl2)))

\* A versionless general purl with one qualifier matched a versioned
\* specific purl carrying an additional qualifier.
C1_Witness ==
    /\ call.op = "PurlMatches"
    /\ call.done
    /\ call.ret
    /\ call.purl1 = PurlText(<<"a">>, <<"n">>, <<"c">>, EmptyString, <<QualKV>>)
    /\ call.purl2 = PurlText(<<"A">>, <<"n">>, <<"c">>, <<"2">>, <<QualJW, QualKV>>)


(***************************************************************************)
(* inputs of the matchers                                                  *)
(***************************************************************************)

MaxSubcomponents == 2
MaxProducts == 2
MaxQuerySubs == 2
MaxStatements == 2
MaxTime == 2
MaxAliases == 2
MaxCalls == 2

\* All sequences over S of length at most n.
SeqsUpTo(S, n) == UNION {[1..k -> S] : k \in 0..n}

\* A nil map.
NoMap == <<>>

\* Opaque identifiers "x", "y", "z", the hash value "h".
IdX == <<"x">>
IdY == <<"y">>
IdZ == <<"z">>
HashH == <<"h">>

PurlC   == PurlText(<<"a">>, EmptyString, <<"c">>, EmptyString, <<>>)
PurlC1  == PurlText(<<"a">>, EmptyString, <<"c">>, <<"1">>, <<>>)
PurlC2  == PurlText(<<"a">>, EmptyString, <<"c">>, <<"2">>, <<>>)
PurlC1Q == PurlText(<<"a">>, EmptyString, <<"c">>, <<"1">>, <<QualKV>>)
PurlUC1 == PurlText(<<"A">>, EmptyString, <<"c">>, <<"1">>, <<>>)
PurlB1  == PurlText(<<"b">>, EmptyString, <<"c">>, <<"1">>, <<>>)
PurlD   == PurlText(<<"a">>, EmptyString, <<"d">>, EmptyString, <<>>)
PurlD1  == PurlText(<<"a">>, EmptyString, <<"d">>, <<"1">>, <<>>)

Component(id, identifiers, hashes) ==
    [ID |-> id, Identifiers |-> identifiers, Hashes |-> hashes]

ComponentIDs == {EmptyString, IdX, PurlC, PurlC1}
IdentifierMaps ==
    {NoMap, PURL :> PurlC, PURL :> IdX, "custom" :> PurlC, "custom" :> IdX,
     PURL :> EmptyString, (PURL :> PurlC1) @@ ("custom" :> IdY)}
HashMaps == {NoMap, "sha1" :> HashH, "sha1" :> EmptyString}

Components ==
    {Component(id, ids, hs) : id \in ComponentIDs, ids \in IdentifierMaps,
                              hs \in HashMaps}

QueryIdentifiers ==
    {EmptyString, IdX, IdY, HashH, PurlC, PurlC1, PurlC2, PurlC1Q, PurlUC1,
     PurlB1, PkgPrefix \o <<"c">>}

\* Primary components and subcomponents of the products.
CompX == Component(IdX, NoMap, NoMap)
CompZ == Component(IdZ, NoMap, NoMap)
CompP == Component(EmptyString, PURL :> PurlC, NoMap)
SubY  == [Component |-> Component(IdY, NoMap, NoMap)]
SubD  == [Component |-> Component(PurlD, NoMap, NoMap)]
SubE  == [Component |-> Component(EmptyString, PURL :> EmptyString, NoMap)]
SubH  == [Component |-> Component(EmptyString, NoMap, "sha1" :> HashH)]

Products ==
    {[Component |-> c, Subcomponents |-> subs] :
        c \in {CompX, CompP},
        subs \in SeqsUpTo({SubY, SubD, SubE, SubH}, MaxSubcomponents)}

ProductIdentifiers == {IdX, PurlC1, IdZ}
SubIdentifiers == {EmptyString, IdY, PurlD1, HashH, IdZ}

\* Vulnerability identifiers "C1", "C2", "G1".
Cve1 == <<"C", "1">>
Cve2 == <<"C", "2">>
Ghsa1 == <<"G", "1">>

VulnC1 == [ID |-> EmptyString, Name |-> Cve1, Aliases |-> <<>>]
VulnG1 == [ID |-> EmptyString, Name |-> Ghsa1, Aliases |-> <<Cve1>>]
VulnC2 == [ID |-> EmptyString, Name |-> Cve2, Aliases |-> <<>>]

ProdA == [Component |-> CompX, Subcomponents |-> <<>>]
ProdB == [Component |-> CompX, Subcomponents |-> <<SubY>>]
ProdE == [Component |-> CompX, Subcomponents |-> <<SubE>>]
ProdZ == [Component |-> CompZ, Subcomponents |-> <<>>]

Statements ==
    {[Vulnerability |-> v, Products |-> ps, Timestamp |-> NoTime] :
        v \in {VulnC1, VulnG1, VulnC2},
        ps \in SeqsUpTo({ProdA, ProdB, ProdE, ProdZ}, MaxProducts)}

\* The internal ID "I1" of a vulnerability.
Iri1 == <<"I", "1">>

Vulnerabilities ==
    {[ID |-> id, Name |-> name, Aliases |-> aliases] :
        id \in {EmptyString, Iri1, Cve1},
        name \in {EmptyString, Cve1, Cve2},
        aliases \in SeqsUpTo({EmptyString, Cve1, Ghsa1}, MaxAliases)}

VulnerabilityIdentifiers == {EmptyString, Iri1, Cve1, Cve2, Ghsa1}

QuerySubs ==
    {NilSlice} \cup
    {Slice(q) : q \in SeqsUpTo({EmptyString, IdY, IdZ}, MaxQuerySubs)}

\* The statements of the documents: timestamps absent or in 1..MaxTime.
DocStatements ==
    {[Vulnerability |-> v, Products |-> ps, Timestamp |-> ts] :
        v \in {VulnC1, VulnG1},
        ps \in {<<ProdA>>, <<ProdB>>},
        ts \in {NoTime} \cup (1..MaxTime)}

Documents ==
    {[Statements |-> sl, Timestamp |-> ts] :
        sl \in {NilSlice} \cup
               {Slice(q) : q \in SeqsUpTo(DocStatements, MaxStatements)},
        ts \in {NoTime} \cup (1..MaxTime)}

DocQuerySubs == {NilSlice, Slice(<<>>), Slice(<<IdY>>), Slice(<<IdZ, IdY>>)}

\* The hash value "g"; package URLs with one and with two qualifiers.
HashG == <<"g">>
PurlCKJ  == PurlText(<<"a">>, EmptyString, <<"c">>, EmptyString,
                     <<QualKV, QualJW>>)
PurlC1JK == PurlText(<<"a">>, EmptyString, <<"c">>, <<"1">>,
                     <<QualJW, QualKV>>)

\* A product whose component and subcomponent are told by mappings of two
\* entries each.
CompM ==
    Component(EmptyString, (PURL :> PurlCKJ) @@ ("custom" :> IdX),
              ("sha1" :> HashH) @@ ("md5" :> HashG))
SubM ==
    [Component |->
        Component(EmptyString, (PURL :> PurlD) @@ ("custom" :> IdY), NoMap)]
ProdM == [Component |-> CompM, Subcomponents |-> <<SubM>>]

\* The documents called repeatedly, and the arguments of the calls.
RepeatStatements ==
    {[Vulnerability |-> VulnC1, Products |-> <<ProdM>>, Timestamp |-> ts] :
        ts \in {NoTime} \cup (1..MaxTime)}
    \cup {[Vulnerability |-> VulnG1, Products |-> <<ProdA>>,
           Timestamp |-> NoTime]}

RepeatDocuments ==
    {[Statements |-> sl, Timestamp |-> ts] :
        sl \in {NilSlice} \cup
               {Slice(q) : q \in SeqsUpTo(RepeatStatements, MaxStatements)},
        ts \in {NoTime, MaxTime}}

RepeatVulnIDs == {Cve1, Ghsa1}
RepeatProducts == {IdX, HashG, PurlC1JK}
RepeatQuerySubs == {NilSlice, Slice(<<IdY>>)}

(***************************************************************************)
(* the matchers as operations                                              *)
(***************************************************************************)

InitComponent ==
    /\ vexDoc = NoDocument
    /\ mapSeed \in MapSeeds
    /\ sortKey = TimeKey
    /\ \E c \in Components, identifier \in QueryIdentifiers :
         call = [op |-> "Component.Matches", c |-> c, identifier |-> identifier,
                 done |-> FALSE, ret |-> FALSE]

CallComponentMatches ==
    /\ call.op = "Component.Matches"
    /\ ~call.done
    /\ call' = [call EXCEPT !.done = TRUE,
                            !.ret = Component_Matches(call.c, call.identifier)]
    /\ UNCHANGED <<vexDoc, mapSeed, sortKey>>

SpecComponent == InitComponent /\ [][CallComponentMatches]_vars

InitProduct ==
    /\ vexDoc = NoDocument
    /\ mapSeed \in MapSeeds
    /\ sortKey = TimeKey
    /\ \E p \in Products, identifier \in ProductIdentifiers,
          subIdentifier \in SubIdentifiers :
         call = [op |-> "Product.Matches", p |-> p, identifier |-> identifier,
                 subIdentifier |-> subIdentifier, done |-> FALSE, ret |-> FALSE]

CallProductMatches ==
    /\ call.op = "Product.Matches"
    /\ ~call.done
    /\ call' = [call EXCEPT !.done = TRUE,
                            !.ret = Product_Matches(call.p, call.identifier,
                                                    call.subIdentifier)]
    /\ UNCHANGED <<vexDoc, mapSeed, sortKey>>

SpecProduct == InitProduct /\ [][CallProductMatches]_vars

InitVulnerability ==
    /\ vexDoc = NoDocument
    /\ mapSeed \in MapSeeds
    /\ sortKey = TimeKey
    /\ \E v \in Vulnerabilities, identifier \in VulnerabilityIdentifiers :
         call = [op |-> "Vulnerability.Matches", v |-> v,
                 identifier |-> identifier, done |-> FALSE, ret |-> FALSE]

CallVulnerabilityMatches ==
    /\ call.op = "Vulnerability.Matches"
    /\ ~call.done
    /\ call' = [call EXCEPT !.done = TRUE,
                            !.ret = Vulnerability_Matches(call.v,
                                                          call.identifier)]
    /\ UNCHANGED <<vexDoc, mapSeed, sortKey>>

SpecVulnerability == InitVulnerability /\ [][CallVulnerabilityMatches]_vars

InitStatement ==
    /\ vexDoc = NoDocument
    /\ mapSeed \in MapSeeds
    /\ sortKey = TimeKey
    /\ \E s \in Statements, vuln \in {Cve1, Cve2}, product \in {IdX, IdZ},
          subcomponents \in QuerySubs :
         call = [op |-> "Statement.Matches", s |-> s, vuln |-> vuln,
                 product |-> product, subcomponents |-> subcomponents,
                 done |-> FALSE, ret |-> FALSE]

CallStatementMatches ==
    /\ call.op = "Statement.Matches"
    /\ ~call.done
    /\ call' = [call EXCEPT !.done = TRUE,
                            !.ret = Statement_Matches(call.s, call.vuln,
                                                      call.product,
                                                      call.subcomponents)]
    /\ UNCHANGED <<vexDoc, mapSeed, sortKey>>

SpecStatement == InitStatement /\ [][CallStatementMatches]_vars

\* recv is the document as it was when the call was made.
InitVEX ==
    /\ vexDoc \in Documents
    /\ mapSeed \in MapSeeds
    /\ sortKey \in SortKeys
    /\ \E vulnID \in {Cve1, Ghsa1}, subcomponents \in DocQuerySubs :
         call = [op |-> "VEX.Matches", recv |-> vexDoc, vulnID |-> vulnID,
                 product |-> IdX, subcomponents |-> subcomponents,
                 done |-> FALSE, ret |-> <<>>]

CallVEXMatches ==
    /\ call.op = "VEX.Matches"
    /\ ~call.done
    /\ LET r == VEX_Matches(vexDoc, call.vulnID, call.product,
                            call.subcomponents)
       IN  /\ vexDoc' = r.doc
           /\ call' = [call EXCEPT !.done = TRUE, !.ret = r.ret]
    /\ UNCHANGED <<mapSeed, sortKey>>

SpecVEX == InitVEX /\ [][CallVEXMatches]_vars

\* Calls of VEX.Matches repeated with the same arguments on the document
\* recv: calls counts them, first and ret are what the first and the latest
\* of them returned, seeds the enumeration orders they ran under.
InitRepeat ==
    /\ vexDoc \in RepeatDocuments
    /\ mapSeed \in MapSeeds
    /\ sortKey \in SortKeys
    /\ \E vulnID \in RepeatVulnIDs, product \in RepeatProducts,
          subcomponents \in RepeatQuerySubs :
         call = [op |-> "VEX.Matches repeated", recv |-> vexDoc,
                 vulnID |-> vulnID, product |-> product,
                 subcomponents |-> subcomponents, calls |-> 0,
                 interleaved |-> FALSE, seeds |-> {},
                 first |-> <<>>, ret |-> <<>>]

\* One more call with the arguments of the earlier ones; the next range
\* statement enumerates in an order of its own.
RepeatVEXMatches ==
    /\ call.op = "VEX.Matches repeated"
    /\ call.calls < MaxCalls
    /\ LET r == VEX_Matches(vexDoc, call.vulnID, call.product,
                            call.subcomponents)
       IN  /\ vexDoc' = r.doc
           /\ call' = [call EXCEPT
                         !.calls = @ + 1,
                         !.seeds = @ \cup {mapSeed},
                         !.first = IF call.calls = 0 THEN r.ret ELSE @,
                         !.ret = r.ret]
    /\ mapSeed' \in MapSeeds
    /\ UNCHANGED sortKey

\* A call with other arguments, before or between the repeated ones; what
\* it returns is dropped.
OtherVEXMatches ==
    /\ call.op = "VEX.Matches repeated"
    /\ ~call.interleaved
    /\ call.calls < MaxCalls
    /\ \E vulnID \in RepeatVulnIDs, product \in RepeatProducts :
         /\ <<vulnID, product>> # <<call.vulnID, call.product>>
         /\ vexDoc' = VEX_Matches(vexDoc, vulnID, product,
                                  call.subcomponents).doc
    /\ call' = [call EXCEPT !.interleaved = TRUE]
    /\ mapSeed' \in MapSeeds
    /\ UNCHANGED sortKey

SpecRepeat == InitRepeat /\ [][RepeatVEXMatches \/ OtherVEXMatches]_vars

Init ==
    \/ InitPurl
    \/ InitComponent
    \/ InitProduct
    \/ InitVulnerability
    \/ InitStatement
    \/ InitVEX
    \/ InitRepeat

Next ==
    \/ CallPurlMatches
    \/ CallComponentMatches
    \/ CallProductMatches
    \/ CallVulnerabilityMatches
    \/ CallStatementMatches
    \/ CallVEXMatches
    \/ RepeatVEXMatches
    \/ OtherVEXMatches

Spec == Init /\ [][Next]_vars


(***************************************************************************)
(* properties                                                              *)
(***************************************************************************)

\* C2: Component.Matches(identifier) is true exactly when the ID is
\* non-empty and equal to the identifier, or the ID begins with "pkg:" and
\* PurlMatches(ID, identifier), or some identifier value equals the
\* identifier, or some purl-typed identifier value purl-matches an
\* identifier that begins with "pkg:", or some hash value equals the
\* identifier.
C2_ComponentMatchesContract ==
    (call.op = "Component.Matches" /\ call.done) =>
        LET c  == call.c
            id == call.identifier
        IN  call.ret <=>
              \/ (c.ID # EmptyString /\ c.ID = id)
              \/ (HasPrefix(c.ID, PkgPrefix) /\ PurlMatches(c.ID, id))
              \/ \E t \in DOMAIN c.Identifiers : c.Identifiers[t] = id
              \/ \E t \in DOMAIN c.Identifiers :
                     /\ t = PURL
                     /\ PurlMatches(c.Identifiers[t], id)
                     /\ HasPrefix(id, PkgPrefix)
              \/ \E a \in DOMAIN c.Hashes : c.Hashes[a] = id

\* A component matched a versioned purl only through its versionless
\* purl-typed identifier.
C2_Witness ==
    /\ call.op = "Component.Matches"
    /\ call.done
    /\ call.ret
    /\ call.c = Component(EmptyString, PURL :> PurlC, NoMap)
    /\ call.identifier = PurlC1

\* Some subcomponent of p matches the sub-identifier.
SomeSubcomponentMatches(p, subIdentifier) ==
    \E i \in 1..Len(p.Subcomponents) :
        Component_Matches(p.Subcomponents[i].Component, subIdentifier)

\* C3 as stated: for every product whose primary component matches and
\* every non-empty sub-identifier, Product.Matches is true iff some
\* subcomponent matches the sub-identifier.
C3_AsStated ==
    (/\ call.op = "Product.Matches"
     /\ call.done
     /\ Component_Matches(call.p.Component, call.identifier)
     /\ call.subIdentifier # EmptyString) =>
        (call.ret <=> SomeSubcomponentMatches(call.p, call.subIdentifier))

\* C3 amended: for every product with at least one subcomponent whose
\* primary component matches, and every non-empty sub-identifier,
\* Product.Matches is true iff some subcomponent matches the sub-identifier.
C3_WithSubcomponents ==
    (/\ call.op = "Product.Matches"
     /\ call.done
     /\ Len(call.p.Subcomponents) >= 1
     /\ Component_Matches(call.p.Component, call.identifier)
     /\ call.subIdentifier # EmptyString) =>
        (call.ret <=> SomeSubcomponentMatches(call.p, call.subIdentifier))

\* A product matched through the second of its two subcomponents.
C3_Witness ==
    /\ call.op = "Product.Matches"
    /\ call.done
    /\ call.ret
    /\ call.p = [Component |-> CompX, Subcomponents |-> <<SubY, SubD>>]
    /\ call.identifier = IdX
    /\ call.subIdentifier = PurlD1

\* C4: for a product with zero subcomponents, Product.Matches equals
\* Component.Matches of the primary component, whatever the sub-identifier.
C4_NoSubcomponents ==
    (/\ call.op = "Product.Matches"
     /\ call.done
     /\ Len(call.p.Subcomponents) = 0) =>
        (call.ret <=> Component_Matches(call.p.Component, call.identifier))

\* A product without subcomponents matched a query that names a
\* subcomponent.
C4_Witness ==
    /\ call.op = "Product.Matches"
    /\ call.done
    /\ call.ret
    /\ Len(call.p.Subcomponents) = 0
    /\ call.subIdentifier = IdY

\* C5: for a product that declares subcomponents, Product.Matches with the
\* empty sub-identifier is false.
C5_EmptySubIdentifierNeverMatches ==
    (/\ call.op = "Product.Matches"
     /\ call.done
     /\ Len(call.p.Subcomponents) >= 1
     /\ call.subIdentifier = EmptyString) =>
        ~call.ret

\* C6: Statement.Matches is true exactly when the vulnerability matches and
\* some product matches (product, "") when no sub-identifier is passed, or
\* (product, sc) for one of the sub-identifiers passed.
C6_StatementMatchesContract ==
    (call.op = "Statement.Matches" /\ call.done) =>
        LET s    == call.s
            subs == call.subcomponents
        IN  call.ret <=>
              /\ Vulnerability_Matches(s.Vulnerability, call.vuln)
              /\ \E i \in 1..Len(s.Products) :
                   \/ /\ GoLen(subs) = 0
                      /\ Product_Matches(s.Products[i], call.product, EmptyString)
                   \/ /\ GoLen(subs) > 0
                      /\ \E k \in 1..GoLen(subs) :
                           Product_Matches(s.Products[i], call.product,
                                           subs.elems[k])

\* A statement matched through its second product and the second
\* sub-identifier of the query.
C6_Witness ==
    /\ call.op = "Statement.Matches"
    /\ call.done
    /\ call.ret
    /\ call.s = [Vulnerability |-> VulnG1, Products |-> <<ProdZ, ProdB>>,
                 Timestamp |-> NoTime]
    /\ call.vuln = Cve1
    /\ call.product = IdX
    /\ call.subcomponents = Slice(<<IdZ, IdY>>)

\* The number of times x occurs in seq.
Count(seq, x) == Cardinality({i \in 1..Len(seq) : seq[i] = x})

\* Whether the call in progress, a VEX.Matches, selects statement s.
Selected(s) ==
    Statement_Matches(s, call.vulnID, call.product, call.subcomponents)

\* C7: VEX.Matches returns exactly the statements of the document that
\* Statement.Matches accepts, each once per occurrence, and the empty
\* sequence for a document with no (or nil) statements or no match.
C7_ExactlyTheMatches ==
    (call.op = "VEX.Matches" /\ call.done) =>
        LET stmts == call.recv.Statements.elems
        IN  /\ \A i \in 1..Len(call.ret) : call.ret[i] \in DocStatements
            /\ \A s \in DocStatements :
                 Count(call.ret, s) =
                   Cardinality({i \in 1..Len(stmts) : stmts[i] = s /\ Selected(s)})
            /\ (GoLen(call.recv.Statements) = 0 => call.ret = <<>>)
            /\ ((\A i \in 1..Len(stmts) : ~Selected(stmts[i])) => call.ret = <<>>)

\* Of two statements, the first not selected and the second selected, the
\* second alone was returned.
C7_Witness ==
    /\ call.op = "VEX.Matches"
    /\ call.done
    /\ GoLen(call.recv.Statements) = 2
    /\ ~Selected(call.recv.Statements.elems[1])
    /\ call.ret = <<call.recv.Statements.elems[2]>>

\* The effective time of the claims: the statement's timestamp if it has
\* one, else the document's, else the zero instant.
ClaimedTime(s, doc) ==
    IF s.Timestamp # NoTime THEN s.Timestamp
    ELSE IF doc.Timestamp # NoTime THEN doc.Timestamp
    ELSE ZeroTime

\* C8: the result of VEX.Matches is in ascending order of effective time.
\* The order of the result is the work of SortStatements alone: this is so
\* when it compares effective times alone, and not when it compares
\* vulnerability names first (statements "G1" at time 1 and "C1" at time 2,
\* both matching "C1", come back as "C1", "G1").
C8_AscendingEffectiveTime ==
    (call.op = "VEX.Matches" /\ call.done) =>
        \A i, j \in 1..Len(call.ret) :
            i < j => ClaimedTime(call.ret[i], call.recv)
                       <= ClaimedTime(call.ret[j], call.recv)

\* C9: in the result of VEX.Matches, statements of equal effective time are
\* in their order of declaration in the document.
C9_TiesInDeclarationOrder ==
    (call.op = "VEX.Matches" /\ call.done) =>
        \A T \in 0..MaxTime :
            LET AtT(s)    == ClaimedTime(s, call.recv) = T
                PickedAtT(s) == Selected(s) /\ AtT(s)
            IN  SelectSeq(call.ret, AtT) =
                  SelectSeq(call.recv.Statements.elems, PickedAtT)

\* C10: VEX.Matches leaves the document as it was: the same statements in
\* the same order, the same timestamp.
C10_DocumentUnchanged ==
    (call.op = "VEX.Matches" /\ call.done) => vexDoc = call.recv

\* A call returned two statements in the opposite order of their
\* declaration, the document still holding them as declared.
C10_Witness ==
    /\ call.op = "VEX.Matches"
    /\ call.done
    /\ GoLen(vexDoc.Statements) = 2
    /\ Len(call.ret) = 2
    /\ call.ret[1] = vexDoc.Statements.elems[2]
    /\ call.ret[2] = vexDoc.Statements.elems[1]
    /\ call.ret[1] # call.ret[2]

C12_VulnerabilityMatchesContract ==
    (call.op = "Vulnerability.Matches" /\ call.done) =>
        (call.ret <=>
            \/ call.identifier = call.v.ID
            \/ call.identifier = call.v.Name
            \/ call.identifier \in {call.v.Aliases[i] :
                                       i \in 1..Len(call.v.Aliases)})

\* A vulnerability matched an identifier that is neither its ID nor its
\* name, through the second of its two aliases.
C12_Witness ==
    /\ call.op = "Vulnerability.Matches"
    /\ call.done
    /\ call.ret
    /\ call.v = [ID |-> Iri1, Name |-> Cve2, Aliases |-> <<Cve1, Ghsa1>>]
    /\ call.identifier = Ghsa1

=============================================================================
